---- MODULE Spec2Model ----
(***************************************************************************)
(* Model of backend/api/ocr_utils.py: the detection-and-recognition        *)
(* pipeline perform_ocr_on_image, the detector adapter, the per-language   *)
(* recognition model cache, the region sequencing and the crop geometry;   *)
(* and of the document views of backend/api/views.py.                      *)
(*                                                                         *)
(* Python values are encoded as tagged records so that values of different *)
(* Python types can be compared: a dict entry is [k, v] with k one of      *)
(* "missing" (key absent), "none" (None) and "int"; a str is a sequence of *)
(* one-character strings.                                                  *)
(***************************************************************************)
EXTENDS Integers, Sequences, FiniteSets, TLC

VARIABLES
    language,               \* argument of perform_ocr_on_image
    image_ok,               \* whether cv2.imdecode can decode image_bytes
    load_env,               \* what the model load of lines 302-310 met
    pc,                     \* position inside perform_ocr_on_image
    english_model_loaded,   \* module globals, ocr_utils.py:17-23
    nepali_model_loaded,
    english_processor,
    english_model,
    nepali_processor,
    nepali_model,
    device,
    detected,               \* the list the detector service answered with
    region_predictions,     \* local of perform_ocr_on_image
    line_groups,            \* local of perform_ocr_on_image (Nepali)
    idx,                    \* loop index: idx (English), line_idx (Nepali)
    word_idx,               \* inner loop index (Nepali)
    full_text,
    line_text,
    result,                 \* value returned by perform_ocr_on_image
    exit,                   \* which return statement was taken
    detect_calls,           \* number of detector adapter calls of this run
    adapter,                \* what the last detector adapter call met
    tmp_left,               \* temporary files that adapter call left on disk
    log,                    \* per processed region: what happened to it
    runs,                   \* number of finished runs
    seen,                   \* <<exit, result>> of the finished runs
    tpc,                    \* per thread: position inside a load function
    tlang,                  \* per thread: the language whose model it loads
    tcalls,                 \* per thread: calls of a load function so far
    loads,                  \* per language: loads that set the loaded flag
    tframe,                 \* per thread: caller of the load, locals processor and model
    inferences,             \* what each inference of process_line_with_model ran with
    images,                 \* the UploadedImage table: pk -> row
    extracted_texts,        \* the ExtractedText table: rows [image, text]
    next_pk,                \* primary key the next UploadedImage row gets
    response,               \* the last HTTP response of the document views
    requests,               \* requests answered so far
    ocr_runs,               \* calls of perform_ocr_on_image by the upload view
    uploading               \* uploads between serializer.save and their response

cache == <<english_model_loaded, nepali_model_loaded, english_processor,
           english_model, nepali_processor, nepali_model, device>>

vars == <<language, image_ok, load_env, pc, english_model_loaded, nepali_model_loaded,
          english_processor, english_model, nepali_processor, nepali_model,
          device, detected, region_predictions, line_groups, idx, word_idx,
          full_text, line_text, result, exit, detect_calls, adapter, tmp_left, log,
          runs, seen, tpc, tlang, tcalls, loads, tframe, inferences,
          images, extracted_texts, next_pk, response, requests, ocr_runs, uploading>>

----------------------------------------------------------------------------
(* Bounds of the model.                                                    *)

\* longest detector answer of a pipeline run
MaxRegions == 2

\* longest prediction list handed to the sequencing specification
MaxSeqLen == 3

\* pipeline runs in the multi-run specification
MaxRuns == 2

\* request threads of the process that use the model cache concurrently
NumThreads == 2

\* calls of a load function by one thread
MaxCalls == 2

\* authenticated users of the document views
NumUsers == 2

\* UploadedImage rows ever created
MaxImages == 2

\* requests to the document views
MaxRequests == 2

\* size of the decoded image
ImgW == 100

ImgH == 60

----------------------------------------------------------------------------
(* Python values.                                                          *)

Missing == [k |-> "missing", v |-> 0]

PyNone == [k |-> "none", v |-> 0]

I(n) == [k |-> "int", v |-> n]

NoPoints == [k |-> "missing", v |-> <<>>]

Points(s) == [k |-> "list", v |-> s]

Pt(x, y) == [x |-> I(x), y |-> I(y)]

NoBox == [k |-> "missing", v |-> [x |-> Missing, y |-> Missing, width |-> Missing, height |-> Missing]]

Box(x, y, w, h) == [k |-> "dict", v |-> [x |-> x, y |-> y, width |-> w, height |-> h]]

\* a str or None, as returned by the recogniser and by the pipeline
NoneStr == [k |-> "none", v |-> <<>>]

Str(s) == [k |-> "str", v |-> s]

Abs(n) == IF n < 0 THEN -n ELSE n

Max(a, b) == IF a >= b THEN a ELSE b

Min(a, b) == IF a <= b THEN a ELSE b

\* Python int() of the rational num/2: truncation toward zero
IntHalf(num) == IF num >= 0 THEN num \div 2 ELSE -((-num) \div 2)

----------------------------------------------------------------------------
(* Region sequencing, ocr_utils.py:336-377.                                *)

\* word grouping threshold, `abs(current_y - last_y) <= 20`
LineThreshold == 20

\* key=lambda p: p.get(f, float('inf'))
SortKey(p, f) == [inf |-> p[f].k = "missing", v |-> p[f].v]

KeyLess(a, b) == (~a.inf) /\ (b.inf \/ a.v < b.v)

\* an unstable variant: e goes before the elements of equal key
InsertPosUnstable(s, e, f) ==
    IF \E i \in 1..Len(s) : ~KeyLess(SortKey(s[i], f), SortKey(e, f))
    THEN CHOOSE i \in 1..Len(s) :
            /\ ~KeyLess(SortKey(s[i], f), SortKey(e, f))
            /\ \A j \in 1..(i-1) : KeyLess(SortKey(s[j], f), SortKey(e, f))
    ELSE Len(s) + 1

\* position at which a stable sort places e among the already sorted s:
\* before the first element whose key is greater than e's key
InsertPos(s, e, f) ==
    IF \E i \in 1..Len(s) : KeyLess(SortKey(e, f), SortKey(s[i], f))
    THEN CHOOSE i \in 1..Len(s) :
            /\ KeyLess(SortKey(e, f), SortKey(s[i], f))
            /\ \A j \in 1..(i-1) : ~KeyLess(SortKey(e, f), SortKey(s[j], f))
    ELSE Len(s) + 1

InsertAt(s, pos, e) == SubSeq(s, 1, pos - 1) \o <<e>> \o SubSeq(s, pos, Len(s))

RECURSIVE SortedBy(_, _)
\* list.sort / sorted with a key: a stable ascending sort
SortedBy(s, f) ==
    IF s = <<>> THEN <<>>
    ELSE LET front == SortedBy(SubSeq(s, 1, Len(s) - 1), f)
             e == s[Len(s)]
         IN  InsertAt(front, InsertPos(front, e, f), e)

\* a comparison of the sort raises TypeError: some key is None and there is
\* at least one comparison to make
SortRaises(s, f) == Len(s) >= 2 /\ \E i \in 1..Len(s) : s[i][f].k = "none"

\* the elements before the first one whose key is None
BeforeNone(s, f) ==
    SubSeq(s, 1, (CHOOSE i \in 1..Len(s) :
                     /\ s[i][f].k = "none"
                     /\ \A j \in 1..(i-1) : s[j][f].k # "none") - 1)

\* the sequence is one run of the sort's run detection: non-decreasing, or
\* strictly decreasing
OneRun(s, f) ==
    \/ \A i \in 1..(Len(s) - 1) : ~KeyLess(SortKey(s[i+1], f), SortKey(s[i], f))
    \/ \A i \in 1..(Len(s) - 1) : KeyLess(SortKey(s[i+1], f), SortKey(s[i], f))

\* the list a list.sort leaves when a comparison raised (line 339): the
\* sort finds the first run and inserts the following elements one by one;
\* the comparison with the first None key ends it.  When that comparison is
\* still part of the run detection nothing has moved; otherwise the
\* elements before the None are sorted and the others are where they were.
SortAbandoned(s, f) ==
    LET front == BeforeNone(s, f)
    IN  IF OneRun(front, f) THEN s
        ELSE SortedBy(front, f) \o SubSeq(s, Len(front) + 1, Len(s))

\* word.get('y', 0)
GetOrZero(p, f) == IF p[f].k = "missing" THEN 0 ELSE p[f].v

SameLineStrict(current_y, last_y) == Abs(current_y - last_y) < LineThreshold

SameLine(current_y, last_y) == Abs(current_y - last_y) <= LineThreshold

\* a variant that opens the next line without the word that starts it
StartLineEmpty(word) == <<>>

\* line 364: `current_line = [word]`
StartLine(word) == <<word>>

RECURSIVE GroupWalk(_, _, _, _)
\* the loop of lines 352-368 over y_sorted, from position i on
GroupWalk(ys, i, groups, current_line) ==
    IF i > Len(ys)
    THEN IF current_line # <<>>
         THEN Append(groups, SortedBy(current_line, "x"))
         ELSE groups
    ELSE IF i = 1 \/ SameLine(GetOrZero(ys[i], "y"), GetOrZero(ys[i-1], "y"))
         THEN GroupWalk(ys, i + 1, groups, Append(current_line, ys[i]))
         ELSE GroupWalk(ys, i + 1, Append(groups, SortedBy(current_line, "x")),
                        StartLine(ys[i]))

\* lines 345-368: the line groups of a Nepali run whose y sort did not raise
LineGroups(preds) == GroupWalk(SortedBy(preds, "y"), 1, <<>>, <<>>)

----------------------------------------------------------------------------
(* Crop geometry, ocr_utils.py:380-422 (English) and 452-481 (Nepali).     *)

\* `padding = 5`
Padding == 5

\* `len(points_data) < 3`, `polygon_points.shape[0] < 3`
MinPolygonPoints == 3

\* [... for p in points_data if 'x' in p and 'y' in p]
UsablePoints(pts) == SelectSeq(pts, LAMBDA p : p.x.k # "missing" /\ p.y.k # "missing")

SeqMin(s, f) == CHOOSE m \in {s[i][f].v : i \in 1..Len(s)} : \A i \in 1..Len(s) : m <= s[i][f].v

SeqMax(s, f) == CHOOSE m \in {s[i][f].v : i \in 1..Len(s)} : \A i \in 1..Len(s) : m >= s[i][f].v

\* cv2.boundingRect of a non-empty integer point set: x, y, w, h
BoundingRect(pts) ==
    [x |-> SeqMin(pts, "x"), y |-> SeqMin(pts, "y"),
     w |-> SeqMax(pts, "x") - SeqMin(pts, "x") + 1,
     h |-> SeqMax(pts, "y") - SeqMin(pts, "y") + 1]

\* a slice bound of Python/numpy indexing, on an axis of length n
SliceBound(i, n) == IF i < 0 THEN Max(i + n, 0) ELSE Min(i, n)

\* number of elements of a[start:stop] on an axis of length n
SliceLen(start, stop, n) == Max(0, SliceBound(stop, n) - SliceBound(start, n))

\* .size of img[y1:y2, x1:x2] per channel
CropSize(r) == SliceLen(r[2], r[4], ImgH) * SliceLen(r[1], r[3], ImgW)

Skip(shape) == [kind |-> "skip", rect |-> <<0, 0, 0, 0>>, shape |-> shape]

Raise(shape) == [kind |-> "raise", rect |-> <<0, 0, 0, 0>>, shape |-> shape]

Crop(r, shape) == [kind |-> "crop", rect |-> r, shape |-> shape]

CropOrSkip(r, shape) == IF CropSize(r) = 0 THEN Skip(shape) ELSE Crop(r, shape)

\* lines 405-408, the padded rectangle of an integer x, y, w, h
PaddedRect(x, y, w, h) ==
    << Max(0, x - Padding), Max(0, y - Padding),
       Min(ImgW, x + w + Padding), Min(ImgH, y + h + Padding) >>

\* lines 471-474 with x, y, x + w, y + h given as twice their (half-integer)
\* value: int() truncates toward zero
PaddedRectHalves(x2, y2, xw2, yh2) ==
    << Max(0, IntHalf(x2) - Padding), Max(0, IntHalf(y2) - Padding),
       Min(ImgW, IntHalf(xw2) + Padding), Min(ImgH, IntHalf(yh2) + Padding) >>

AllInts(d, fs) == \A f \in fs : d[f].k = "int"

\* lines 388-422: the outcomes of the geometry of one English line
EnglishGeometry(p) ==
    IF p.points.k # "list" \/ Len(p.points.v) < MinPolygonPoints
    THEN {Skip("none")}
    ELSE LET pts == UsablePoints(p.points.v)
         IN  IF \E i \in 1..Len(pts) : ~AllInts(pts[i], {"x", "y"})
             THEN {Raise("polygon")}
             ELSE IF Len(pts) < MinPolygonPoints
                  THEN {Skip("polygon")}
                  ELSE LET b == BoundingRect(pts)
                       IN  {CropOrSkip(PaddedRect(b.x, b.y, b.w, b.h), "polygon")}

\* lines 452-481: the outcomes of the geometry of one Nepali word.
\* cv2.boundingRect of an empty point array fails its npoints assertion and
\* raises cv2.error, which line 493 catches.
NepaliGeometry(p) ==
    IF p.bbox.k # "missing"
    THEN IF ~AllInts(p.bbox.v, {"x", "y", "width", "height"})
         THEN {Raise("box")}
         ELSE LET b == p.bbox.v
              IN  {CropOrSkip(PaddedRectHalves(2 * b.x.v, 2 * b.y.v,
                                               2 * (b.x.v + b.width.v),
                                               2 * (b.y.v + b.height.v)), "box")}
    ELSE IF \A f \in {"x", "y", "width", "height"} : p[f].k # "missing"
    THEN IF ~AllInts(p, {"x", "y", "width", "height"})
         THEN {Raise("center")}
         ELSE {CropOrSkip(PaddedRectHalves(2 * p.x.v - p.width.v, 2 * p.y.v - p.height.v,
                                           2 * p.x.v + p.width.v, 2 * p.y.v + p.height.v),
                          "center")}
    ELSE IF p.points.k # "missing"
    THEN LET pts == UsablePoints(p.points.v)
         IN  IF \E i \in 1..Len(pts) : ~AllInts(pts[i], {"x", "y"})
             THEN {Raise("polygon")}
             ELSE IF pts = <<>>
                  THEN {Raise("polygon")}
                  ELSE LET b == BoundingRect(pts)
                       IN  {CropOrSkip(PaddedRect(b.x, b.y, b.w, b.h), "polygon")}
    ELSE {Skip("none")}

Geometry(lang, p) == IF lang = "english" THEN EnglishGeometry(p) ELSE NepaliGeometry(p)

----------------------------------------------------------------------------
(* Strings.                                                                *)

Whitespace == {" ", "\n"}

RECURSIVE LStrip(_)
LStrip(s) == IF s # <<>> /\ s[1] \in Whitespace THEN LStrip(Tail(s)) ELSE s

RECURSIVE RStrip(_)
RStrip(s) ==
    IF s # <<>> /\ s[Len(s)] \in Whitespace THEN RStrip(SubSeq(s, 1, Len(s) - 1)) ELSE s

\* str.strip()
Strip(s) == RStrip(LStrip(s))

RECURSIVE JoinNoSep(_, _)
\* a variant of str.join that forgets the separator
JoinNoSep(sep, parts) ==
    IF parts = <<>> THEN <<>> ELSE parts[1] \o JoinNoSep(sep, Tail(parts))

RECURSIVE Join(_, _)
\* sep.join(parts)
Join(sep, parts) ==
    IF parts = <<>> THEN <<>>
    ELSE IF Len(parts) = 1 THEN parts[1]
    ELSE parts[1] \o sep \o Join(sep, Tail(parts))

----------------------------------------------------------------------------
(* The recognition model cache, ocr_utils.py:16-95.                        *)

CacheRec ==
    [english_model_loaded |-> english_model_loaded,
     nepali_model_loaded |-> nepali_model_loaded,
     english_processor |-> english_processor, english_model |-> english_model,
     nepali_processor |-> nepali_processor, nepali_model |-> nepali_model,
     device |-> device]

SetCache(c) ==
    /\ english_model_loaded' = c.english_model_loaded
    /\ nepali_model_loaded' = c.nepali_model_loaded
    /\ english_processor' = c.english_processor
    /\ english_model' = c.english_model
    /\ nepali_processor' = c.nepali_processor
    /\ nepali_model' = c.nepali_model
    /\ device' = c.device

\* what a load attempt meets: the setting is not defined (settings.X raises
\* AttributeError at line 33/68, outside the try), the configured path is
\* empty or no directory, from_pretrained raises, .to(cuda) raises, or the
\* load succeeds with torch.cuda.is_available() answering False or True
LoadEnvs == {"no_setting", "bad_path", "raise_processor", "raise_model", "raise_to", "cpu", "cuda"}

FailingLoadEnvs == LoadEnvs \ {"cpu", "cuda"}

\* load_english_ocr_model, lines 26-58: the return value and the globals
LoadEnglish(c, env) ==
    IF c.english_model_loaded THEN [ok |-> TRUE, raised |-> FALSE, cache |-> c]
    ELSE IF env = "no_setting" THEN [ok |-> FALSE, raised |-> TRUE, cache |-> c]
    ELSE IF env = "bad_path" THEN [ok |-> FALSE, raised |-> FALSE, cache |-> c]
    ELSE IF env \in {"raise_processor", "raise_model"}
    THEN [ok |-> FALSE, raised |-> FALSE,
          cache |-> [c EXCEPT !.english_processor = FALSE, !.english_model = FALSE,
                              !.english_model_loaded = FALSE]]
    ELSE IF env = "raise_to"
    THEN [ok |-> FALSE, raised |-> FALSE,
          cache |-> [c EXCEPT !.english_processor = FALSE, !.english_model = FALSE,
                              !.english_model_loaded = FALSE, !.device = "cuda"]]
    ELSE [ok |-> TRUE, raised |-> FALSE,
          cache |-> [c EXCEPT !.english_processor = TRUE, !.english_model = TRUE,
                              !.english_model_loaded = TRUE, !.device = env]]

\* load_nepali_ocr_model, lines 61-95
LoadNepali(c, env) ==
    IF c.nepali_model_loaded THEN [ok |-> TRUE, raised |-> FALSE, cache |-> c]
    ELSE IF env = "no_setting" THEN [ok |-> FALSE, raised |-> TRUE, cache |-> c]
    ELSE IF env = "bad_path" THEN [ok |-> FALSE, raised |-> FALSE, cache |-> c]
    ELSE IF env \in {"raise_processor", "raise_model"}
    THEN [ok |-> FALSE, raised |-> FALSE,
          cache |-> [c EXCEPT !.nepali_processor = FALSE, !.nepali_model = FALSE,
                              !.nepali_model_loaded = FALSE]]
    ELSE IF env = "raise_to"
    THEN [ok |-> FALSE, raised |-> FALSE,
          cache |-> [c EXCEPT !.nepali_processor = FALSE, !.nepali_model = FALSE,
                              !.nepali_model_loaded = FALSE,
                              !.device = IF c.device = "None" THEN "cuda" ELSE c.device]]
    ELSE [ok |-> TRUE, raised |-> FALSE,
          cache |-> [c EXCEPT !.nepali_processor = TRUE, !.nepali_model = TRUE,
                              !.nepali_model_loaded = TRUE,
                              !.device = IF c.device = "None" THEN env ELSE c.device]]

\* what the model answers for one crop: it raises, or decodes a raw string
RawTexts == { <<"a">>, <<"b", " ">>, <<" ">> }

RecEnvs == {[raises |-> TRUE, raw |-> <<>>]} \cup {[raises |-> FALSE, raw |-> r] : r \in RawTexts}

\* process_line_with_model, lines 98-155: the returned text and the globals.
\* An exception of the load (line 115/122) leaves the function and is caught
\* by the caller's per-region except (436, 493): no text for the region.
Recognise(lang, c, loadEnv, recEnv) ==
    LET ld == IF lang = "english" THEN LoadEnglish(c, loadEnv)
              ELSE IF lang = "nepali" THEN LoadNepali(c, loadEnv)
              ELSE [ok |-> FALSE, raised |-> FALSE, cache |-> c]
        processor == IF lang = "english" THEN ld.cache.english_processor
                     ELSE ld.cache.nepali_processor
        model == IF lang = "english" THEN ld.cache.english_model ELSE ld.cache.nepali_model
    IN  IF ~ld.ok \/ ~processor \/ ~model \/ recEnv.raises
        THEN [text |-> NoneStr, cache |-> ld.cache]
        ELSE [text |-> IF Strip(recEnv.raw) = <<>> THEN NoneStr ELSE Str(Strip(recEnv.raw)),
              cache |-> ld.cache]

Loaded(lang, c) ==
    IF lang = "english" THEN c.english_model_loaded
    ELSE IF lang = "nepali" THEN c.nepali_model_loaded ELSE FALSE

\* lines 303-310: every tag other than 'english' loads the Nepali model
ModelOf(lang) == IF lang = "english" THEN "english" ELSE "nepali"

\* the load outcomes that matter to a recognition call
LoadEnvsFor(lang, c) == IF Loaded(lang, c) \/ lang \notin {"english", "nepali"} THEN {"cpu"} ELSE LoadEnvs

----------------------------------------------------------------------------
(* The detector adapter, ocr_utils.py:163-276.                             *)

Pred(x, y, w, h, points, bbox) ==
    [id |-> 0, x |-> x, y |-> y, width |-> w, height |-> h, points |-> points, bbox |-> bbox]

\* the prediction records the detector service answers with in a pipeline run
PredPool ==
    { \* a line or word inside the image: centre box and polygon
      Pred(I(30), I(10), I(20), I(10), Points(<<Pt(20, 5), Pt(40, 5), Pt(30, 15)>>), NoBox),
      \* a second one, 20 below and to the left
      Pred(I(10), I(30), I(10), I(10), Points(<<Pt(5, 25), Pt(15, 25), Pt(15, 35)>>), NoBox),
      \* a third one, 21 below the second
      Pred(I(50), I(51), I(10), I(10), Points(<<Pt(45, 46), Pt(55, 46), Pt(55, 56), Pt(45, 56)>>), NoBox),
      \* only a polygon, of three points
      Pred(Missing, Missing, Missing, Missing, Points(<<Pt(60, 5), Pt(80, 5), Pt(70, 15)>>), NoBox),
      \* only a polygon, of two points
      Pred(Missing, Missing, Missing, Missing, Points(<<Pt(20, 5), Pt(40, 15)>>), NoBox),
      \* only a polygon, none of whose points has both keys
      Pred(Missing, Missing, Missing, Missing, Points(<<[x |-> I(20), y |-> Missing]>>), NoBox),
      \* only a named box, left of the image
      Pred(Missing, Missing, Missing, Missing, NoPoints, Box(I(-50), I(5), I(10), I(10))),
      \* a centre box and a polygon left of the image
      Pred(I(-45), I(10), I(10), I(10), Points(<<Pt(-50, 5), Pt(-40, 5), Pt(-45, 15)>>), NoBox),
      \* right of the image
      Pred(I(200), I(10), I(10), I(10), Points(<<Pt(195, 5), Pt(205, 5), Pt(200, 15)>>), NoBox),
      \* a named box without its width
      Pred(Missing, I(10), Missing, Missing, NoPoints, Box(I(10), I(5), Missing, I(10))),
      \* y is None
      Pred(I(30), PyNone, I(20), I(10), Points(<<Pt(20, 5), Pt(40, 5), Pt(30, 15)>>), NoBox),
      \* no geometry at all
      Pred(Missing, I(10), Missing, Missing, NoPoints, NoBox) }

\* each prediction is an object of its own: its identity is its position in
\* the detector's answer
WithIds(s) == [i \in 1..Len(s) |-> [s[i] EXCEPT !.id = i]]

SeqsUpTo(S, n) == UNION {[1..m -> S] : m \in 0..n}

DetectorAnswers == {WithIds(s) : s \in SeqsUpTo(PredPool, MaxRegions)}

\* what one adapter call meets: the temporary file cannot be written, the
\* service call raises, or the service answers
AdapterEnvs == {"save_failed", "infer_raised", "answered"}

NoneList == [k |-> "none", v |-> <<>>]

List(s) == [k |-> "list", v |-> s]

\* detect_text_lines (237-276) and detect_text_words (185-234): same control flow
DetectText(env, answer) ==
    IF env = "save_failed" THEN NoneList
    ELSE IF env = "infer_raised" THEN List(<<>>)
    ELSE List(answer)

\* what the file system does during one adapter call: whether
\* NamedTemporaryFile(delete=False) created the file before save_temp_image
\* failed, and whether os.unlink succeeds
FileEnvs == [created : BOOLEAN, unlinked : BOOLEAN]

\* save_temp_image (279-287) and the finally blocks (227-234, 269-276): the
\* number of files of this call that are on disk when it returns.  When
\* save_temp_image fails image_path is None and nothing is unlinked.
FilesLeft(env, fenv) ==
    IF env = "save_failed" THEN (IF fenv.created THEN 1 ELSE 0)
    ELSE IF fenv.unlinked THEN 0 ELSE 1

Supported == {"english", "nepali"}

Languages == Supported \cup {"hindi"}

----------------------------------------------------------------------------
(* perform_ocr_on_image, ocr_utils.py:290-514.                             *)

Unbound == [k |-> "unbound", v |-> <<>>]

Unset == [k |-> "unset", v |-> <<>>]

NoGroups == [bound |-> FALSE, v |-> <<>>]

input == <<language, image_ok, load_env>>

locals == <<detected, region_predictions, line_groups, idx, word_idx, full_text,
            line_text, detect_calls, adapter, tmp_left, log>>

outcome == <<result, exit, runs, seen>>

\* the pipeline run of the request at hand, without the shared globals
run == <<input, pc, locals, outcome>>

Threads == 1..NumThreads

\* the threads that run load functions concurrently
conc == <<tpc, tlang, tcalls, loads, tframe, inferences>>

\* a thread that is not inside process_line_with_model
NoFrame == [caller |-> "perform_ocr_on_image", processor |-> FALSE, model |-> FALSE]

\* the database and the HTTP exchange of the document views
web == <<images, extracted_texts, next_pk, response, requests, ocr_runs, uploading>>

\* what a request that is not an upload sends of the upload fields
NoUpload == [has_image |-> FALSE, file_ok |-> FALSE, field |-> "absent"]

NoResponse ==
    [op |-> "none", user |-> 0, pk |-> 0, status |-> 0, body |-> {}, sent |-> NoUpload]

\* the state outside a single pipeline run
outside == <<conc, web>>

OutsideInit ==
    /\ tpc = [t \in Threads |-> "idle"]
    /\ tlang = [t \in Threads |-> "english"]
    /\ tcalls = [t \in Threads |-> 0]
    /\ loads = [l \in Supported |-> 0]
    /\ tframe = [t \in Threads |-> NoFrame]
    /\ inferences = {}
    /\ images = << >>
    /\ extracted_texts = {}
    /\ next_pk = 1
    /\ response = NoResponse
    /\ requests = 0
    /\ ocr_runs = 0
    /\ uploading = {}

Init ==
    /\ language \in Languages
    /\ image_ok \in BOOLEAN
    /\ load_env = "none"
    /\ pc = "load"
    /\ english_model_loaded = FALSE
    /\ nepali_model_loaded = FALSE
    /\ english_processor = FALSE
    /\ english_model = FALSE
    /\ nepali_processor = FALSE
    /\ nepali_model = FALSE
    /\ device = "None"
    /\ detected = <<>>
    /\ region_predictions = Unbound
    /\ line_groups = NoGroups
    /\ idx = 1
    /\ word_idx = 1
    /\ full_text = <<>>
    /\ line_text = <<>>
    /\ result = Unset
    /\ exit = "running"
    /\ detect_calls = 0
    /\ adapter = "not_called"
    /\ tmp_left = 0
    /\ log = <<>>
    /\ runs = 0
    /\ seen = {}
    /\ OutsideInit

\* an exception that leaves perform_ocr_on_image
Raised == [k |-> "raised", v |-> <<>>]

\* a return statement of perform_ocr_on_image, or an exception leaving it
Return(e, r) ==
    /\ pc' = "done"
    /\ exit' = e
    /\ result' = r
    /\ runs' = runs + 1
    /\ seen' = seen \cup {<<e, r>>}

\* lines 302-310
LoadModel ==
    /\ pc = "load"
    /\ \E env \in LoadEnvs :
        LET ld == IF language = "english" THEN LoadEnglish(CacheRec, env)
                  ELSE LoadNepali(CacheRec, env)
        IN  /\ SetCache(ld.cache)
            /\ load_env' = IF Loaded(ModelOf(language), CacheRec) THEN "cached" ELSE env
            /\ IF ld.ok
               THEN pc' = "decode" /\ UNCHANGED outcome
               ELSE IF ld.raised
               THEN Return("raised", Raised)
               ELSE Return("load_failed", NoneStr)
    /\ UNCHANGED <<language, image_ok, locals>>
    /\ UNCHANGED outside

\* lines 313-320
Decode ==
    /\ pc = "decode"
    /\ IF image_ok
       THEN pc' = "detect" /\ UNCHANGED outcome
       ELSE Return("decode_failed", NoneStr)
    /\ UNCHANGED <<input, cache, locals>>
    /\ UNCHANGED outside

\* detect_text_regions, lines 163-182: the answer of the adapter for each
\* thing the call can meet
DetectTextRegions(lang, env, answer) ==
    IF lang \in Supported THEN DetectText(env, answer) ELSE List(<<>>)

\* lines 322-333
Detect ==
    /\ pc = "detect"
    /\ \E env \in AdapterEnvs :
       \E answer \in IF env = "answered" /\ language \in Supported
                     THEN DetectorAnswers ELSE {<<>>} :
       \E fenv \in FileEnvs :
        LET r == DetectTextRegions(language, env, answer)
        IN  /\ detected' = answer
            /\ tmp_left' = IF language \in Supported THEN FilesLeft(env, fenv) ELSE tmp_left
            /\ region_predictions' = r
            /\ detect_calls' = IF language \in Supported THEN detect_calls + 1 ELSE detect_calls
            /\ adapter' = IF language \in Supported THEN env ELSE adapter
            /\ IF r.k = "none" THEN Return("detector_critical", NoneStr)
               ELSE IF r.v = <<>> THEN Return("no_regions", NoneStr)
               ELSE pc' = "sort" /\ UNCHANGED outcome
    /\ UNCHANGED <<input, cache, line_groups, idx, word_idx, full_text, line_text, log>>
    /\ UNCHANGED outside

\* lines 335-377
SortStep ==
    IF language = "english"
    THEN /\ IF SortRaises(region_predictions.v, "y")
            THEN region_predictions' = List(SortAbandoned(region_predictions.v, "y"))
            ELSE region_predictions' = List(SortedBy(region_predictions.v, "y"))
         /\ UNCHANGED line_groups
    ELSE /\ IF SortRaises(region_predictions.v, "y")
            THEN UNCHANGED line_groups
            ELSE line_groups' = [bound |-> TRUE, v |-> LineGroups(region_predictions.v)]
         /\ UNCHANGED region_predictions

Sort ==
    /\ pc = "sort"
    /\ SortStep
    /\ pc' = "process"
    /\ UNCHANGED <<input, cache, detected, idx, word_idx, full_text, line_text,
                   detect_calls, adapter, tmp_left, log, outcome>>
    /\ UNCHANGED outside

\* the array the crop is sliced from: line_img_masked, the image with the
\* pixels outside the polygon blanked (418), or img itself (477)
CropSource(lang) == IF lang = "english" THEN "masked" ELSE "image"

LogEntry(p, line, what, text, g) ==
    [id |-> p.id, line |-> line, what |-> what, text |-> text, rect |-> g.rect,
     shape |-> g.shape,
     source |-> IF g.kind = "crop" THEN CropSource(language) ELSE "none"]

\* the body of the loops at 385-438 and 448-495 for one region: the entry
\* logged for it and the globals after it
RegionStep(p, line, g, loadEnv, recEnv) ==
    IF g.kind = "crop"
    THEN LET rec == Recognise(language, CacheRec, loadEnv, recEnv)
         IN  [entry |-> LogEntry(p, line, IF rec.text.k = "str" THEN "text" ELSE "none",
                                 rec.text.v, g),
              cache |-> rec.cache]
    ELSE [entry |-> LogEntry(p, line, g.kind, <<>>, g), cache |-> CacheRec]

\* a variant in which a region without text discards what was collected
CollectedReset(texts, entry) ==
    IF entry.what = "text" THEN Append(texts, entry.text) ELSE <<>>

\* lines 430-431 and 489-490: `if line_text: full_text.append(line_text)`
Collected(texts, entry) ==
    IF entry.what = "text" THEN Append(texts, entry.text) ELSE texts

\* lines 385-438: one iteration of the English loop
ProcessLine ==
    /\ pc = "process"
    /\ language = "english"
    /\ idx <= Len(region_predictions.v)
    /\ \E g \in Geometry(language, region_predictions.v[idx]) :
       \E loadEnv \in LoadEnvsFor(language, CacheRec) :
       \E recEnv \in RecEnvs :
        LET st == RegionStep(region_predictions.v[idx], idx, g, loadEnv, recEnv)
        IN  /\ SetCache(st.cache)
            /\ log' = Append(log, st.entry)
            /\ full_text' = Collected(full_text, st.entry)
    /\ idx' = idx + 1
    /\ UNCHANGED <<input, pc, detected, region_predictions, line_groups, word_idx,
                   line_text, detect_calls, adapter, tmp_left, outcome>>
    /\ UNCHANGED outside

\* lines 441/502 and 504-510
Finish(joined) ==
    IF joined = <<>> THEN Return("no_text", NoneStr) ELSE Return("ok", Str(joined))

\* lines 440-441, 504-510: after the English loop
FinishEnglish ==
    /\ pc = "process"
    /\ language = "english"
    /\ idx > Len(region_predictions.v)
    /\ Finish(Join(<<"\n">>, full_text))
    /\ UNCHANGED <<input, cache, locals>>
    /\ UNCHANGED outside

\* line 445 when the sort raised before line_groups was assigned: the
\* NameError is caught at 512-514
UnboundLineGroups ==
    /\ pc = "process"
    /\ language # "english"
    /\ ~line_groups.bound
    /\ Return("critical_exception", NoneStr)
    /\ UNCHANGED <<input, cache, locals>>
    /\ UNCHANGED outside

\* lines 445-499: one iteration of the inner Nepali loop, with the end of
\* its line (497-499) when the word is the last of the line
ProcessWord ==
    /\ pc = "process"
    /\ language # "english"
    /\ line_groups.bound
    /\ idx <= Len(line_groups.v)
    /\ \E g \in Geometry(language, line_groups.v[idx][word_idx]) :
       \E loadEnv \in LoadEnvsFor(language, CacheRec) :
       \E recEnv \in RecEnvs :
        LET st == RegionStep(line_groups.v[idx][word_idx], idx, g, loadEnv, recEnv)
            words == Collected(line_text, st.entry)
        IN  /\ SetCache(st.cache)
            /\ log' = Append(log, st.entry)
            /\ IF word_idx < Len(line_groups.v[idx])
               THEN /\ word_idx' = word_idx + 1
                    /\ line_text' = words
                    /\ UNCHANGED <<idx, full_text>>
               ELSE /\ word_idx' = 1
                    /\ idx' = idx + 1
                    /\ line_text' = <<>>
                    /\ full_text' = IF words # <<>>
                                    THEN Append(full_text, Join(<<" ">>, words))
                                    ELSE full_text
    /\ UNCHANGED <<input, pc, detected, region_predictions, line_groups,
                   detect_calls, adapter, tmp_left, outcome>>
    /\ UNCHANGED outside

\* lines 501-510: after the Nepali loops
FinishNepali ==
    /\ pc = "process"
    /\ language # "english"
    /\ line_groups.bound
    /\ idx > Len(line_groups.v)
    /\ Finish(Join(<<"\n">>, full_text))
    /\ UNCHANGED <<input, cache, locals>>
    /\ UNCHANGED outside

\* views.py:98: the upload view calls perform_ocr_on_image for the next upload
Restart ==
    /\ pc = "done"
    /\ runs < MaxRuns
    /\ language' \in Languages
    /\ image_ok' \in BOOLEAN
    /\ load_env' = "none"
    /\ pc' = "load"
    /\ detected' = <<>>
    /\ region_predictions' = Unbound
    /\ line_groups' = NoGroups
    /\ idx' = 1
    /\ word_idx' = 1
    /\ full_text' = <<>>
    /\ line_text' = <<>>
    /\ result' = Unset
    /\ exit' = "running"
    /\ detect_calls' = 0
    /\ adapter' = "not_called"
    /\ tmp_left' = 0
    /\ log' = <<>>
    /\ UNCHANGED <<cache, runs, seen>>
    /\ UNCHANGED outside

Next ==
    \/ LoadModel
    \/ Decode
    \/ Detect
    \/ Sort
    \/ ProcessLine
    \/ FinishEnglish
    \/ UnboundLineGroups
    \/ ProcessWord
    \/ FinishNepali

\* one call of perform_ocr_on_image on a cold cache
Spec == Init /\ [][Next]_vars

NextRuns == Next \/ Restart

\* successive calls of perform_ocr_on_image in one process
SpecRuns == Init /\ [][NextRuns]_vars

----------------------------------------------------------------------------
(* load_english_ocr_model and load_nepali_ocr_model (26-95) run by several  *)
(* request threads of one process, one statement at a time.  Nothing in    *)
(* the module serialises them.                                             *)

ProcessorOf(l) == IF l = "english" THEN english_processor ELSE nepali_processor

\* the globals of language l after an assignment to its three names
SetLanguage(l, processor, model, loaded) ==
    IF l = "english"
    THEN /\ english_processor' = processor
         /\ english_model' = model
         /\ english_model_loaded' = loaded
         /\ UNCHANGED <<nepali_processor, nepali_model, nepali_model_loaded>>
    ELSE /\ nepali_processor' = processor
         /\ nepali_model' = model
         /\ nepali_model_loaded' = loaded
         /\ UNCHANGED <<english_processor, english_model, english_model_loaded>>

ModelObjOf(l) == IF l = "english" THEN english_model ELSE nepali_model

Goto(t, where) == tpc' = [tpc EXCEPT ![t] = where]

\* where a thread continues when the load function returns ok: line 118 or
\* 125 when process_line_with_model called it and it returned True
AfterLoad(t, ok) ==
    IF tframe[t].caller = "process_line_with_model" /\ ok THEN "read_processor" ELSE "idle"

\* a thread calls the load function of a language (lines 304, 308, 115, 122)
CallLoad(t) ==
    /\ tpc[t] = "idle"
    /\ tcalls[t] < MaxCalls
    /\ \E l \in Supported : tlang' = [tlang EXCEPT ![t] = l]
    /\ tcalls' = [tcalls EXCEPT ![t] = @ + 1]
    /\ tframe' = [tframe EXCEPT ![t] = NoFrame]
    /\ Goto(t, "check")
    /\ UNCHANGED <<cache, loads, inferences, run, web>>

\* lines 30-31, 65-66
CheckLoaded(t) ==
    /\ tpc[t] = "check"
    /\ IF Loaded(tlang[t], CacheRec) THEN Goto(t, AfterLoad(t, TRUE)) ELSE Goto(t, "path")
    /\ UNCHANGED <<cache, tlang, tcalls, loads, tframe, inferences, run, web>>

\* lines 33-38, 68-73
ReadPath(t) ==
    /\ tpc[t] = "path"
    /\ \E env \in {"no_setting", "bad_path", "valid"} :
          IF env = "valid" THEN Goto(t, "processor") ELSE Goto(t, AfterLoad(t, FALSE))
    /\ UNCHANGED <<cache, tlang, tcalls, loads, tframe, inferences, run, web>>

\* lines 41, 77
LoadProcessor(t) ==
    /\ tpc[t] = "processor"
    /\ \/ /\ SetLanguage(tlang[t], TRUE, ModelObjOf(tlang[t]), Loaded(tlang[t], CacheRec))
          /\ Goto(t, "model")
       \/ /\ Goto(t, "except")
          /\ UNCHANGED <<english_processor, english_model, english_model_loaded,
                         nepali_processor, nepali_model, nepali_model_loaded>>
    /\ UNCHANGED <<device, tlang, tcalls, loads, tframe, inferences, run, web>>

\* lines 42, 78
LoadModelObject(t) ==
    /\ tpc[t] = "model"
    /\ \/ /\ SetLanguage(tlang[t], ProcessorOf(tlang[t]), TRUE, Loaded(tlang[t], CacheRec))
          /\ Goto(t, "device")
       \/ /\ Goto(t, "except")
          /\ UNCHANGED <<english_processor, english_model, english_model_loaded,
                         nepali_processor, nepali_model, nepali_model_loaded>>
    /\ UNCHANGED <<device, tlang, tcalls, loads, tframe, inferences, run, web>>

\* line 44 (always assigns) and lines 80-81 (assign `if not device`)
SetDevice(t) ==
    /\ tpc[t] = "device"
    /\ IF tlang[t] = "english" \/ device = "None"
       THEN device' \in {"cpu", "cuda"}
       ELSE UNCHANGED device
    /\ Goto(t, "to")
    /\ UNCHANGED <<english_processor, english_model, english_model_loaded,
                   nepali_processor, nepali_model, nepali_model_loaded,
                   tlang, tcalls, loads, tframe, inferences, run, web>>

\* lines 45-46, 83-84
MoveToDevice(t) ==
    /\ tpc[t] = "to"
    /\ \/ Goto(t, "flag")
       \/ Goto(t, "except")
    /\ UNCHANGED <<cache, tlang, tcalls, loads, tframe, inferences, run, web>>

\* lines 48-50, 86-88
SetLoaded(t) ==
    /\ tpc[t] = "flag"
    /\ SetLanguage(tlang[t], ProcessorOf(tlang[t]), ModelObjOf(tlang[t]), TRUE)
    /\ loads' = [loads EXCEPT ![tlang[t]] = @ + 1]
    /\ Goto(t, AfterLoad(t, TRUE))
    /\ UNCHANGED <<device, tlang, tcalls, tframe, inferences, run, web>>

\* lines 52-58, 90-95
LoadExcept(t) ==
    /\ tpc[t] = "except"
    /\ SetLanguage(tlang[t], FALSE, FALSE, FALSE)
    /\ Goto(t, AfterLoad(t, FALSE))
    /\ UNCHANGED <<device, tlang, tcalls, loads, tframe, inferences, run, web>>

\* a thread calls process_line_with_model (line 98) for a line or word
CallRecognise(t) ==
    /\ tpc[t] = "idle"
    /\ tcalls[t] < MaxCalls
    /\ \E l \in Supported : tlang' = [tlang EXCEPT ![t] = l]
    /\ tcalls' = [tcalls EXCEPT ![t] = @ + 1]
    /\ tframe' = [tframe EXCEPT ![t] = [NoFrame EXCEPT !.caller = "process_line_with_model"]]
    /\ Goto(t, "flag_seen")
    /\ UNCHANGED <<cache, loads, inferences, run, web>>

\* lines 114-117, 121-124: the flag is read; when it is False the load
\* function is called
SeeFlag(t) ==
    /\ tpc[t] = "flag_seen"
    /\ IF Loaded(tlang[t], CacheRec) THEN Goto(t, "read_processor") ELSE Goto(t, "check")
    /\ UNCHANGED <<cache, tlang, tcalls, loads, tframe, inferences, run, web>>

\* lines 118, 125: `processor = english_processor`
ReadProcessor(t) ==
    /\ tpc[t] = "read_processor"
    /\ tframe' = [tframe EXCEPT ![t].processor = ProcessorOf(tlang[t])]
    /\ Goto(t, "read_model")
    /\ UNCHANGED <<cache, tlang, tcalls, loads, inferences, run, web>>

\* lines 119, 126: `model = english_model`
ReadModel(t) ==
    /\ tpc[t] = "read_model"
    /\ tframe' = [tframe EXCEPT ![t].model = ModelObjOf(tlang[t])]
    /\ Goto(t, "available")
    /\ UNCHANGED <<cache, tlang, tcalls, loads, inferences, run, web>>

\* lines 131-133: `if not processor or not model: return None`
CheckAvailable(t) ==
    /\ tpc[t] = "available"
    /\ IF tframe[t].processor /\ tframe[t].model THEN Goto(t, "infer") ELSE Goto(t, "idle")
    /\ UNCHANGED <<cache, tlang, tcalls, loads, tframe, inferences, run, web>>

\* lines 141-145: the inference, with the locals and the global device
Infer(t) ==
    /\ tpc[t] = "infer"
    /\ inferences' = inferences \cup {[processor |-> tframe[t].processor,
                                       model |-> tframe[t].model,
                                       device |-> device]}
    /\ Goto(t, "idle")
    /\ UNCHANGED <<cache, tlang, tcalls, loads, tframe, run, web>>

NextConc ==
    \E t \in Threads :
        \/ CallLoad(t)
        \/ CheckLoaded(t)
        \/ ReadPath(t)
        \/ LoadProcessor(t)
        \/ LoadModelObject(t)
        \/ SetDevice(t)
        \/ MoveToDevice(t)
        \/ SetLoaded(t)
        \/ LoadExcept(t)
        \/ CallRecognise(t)
        \/ SeeFlag(t)
        \/ ReadProcessor(t)
        \/ ReadModel(t)
        \/ CheckAvailable(t)
        \/ Infer(t)

InitConc == Init /\ language = "english" /\ image_ok

\* the load functions called from concurrent requests
SpecConc == InitConc /\ [][NextConc]_vars

\* the thread is creating or placing the model objects
Loading(t) == tpc[t] \in {"processor", "model", "device", "to", "flag"}

\* C13: under any interleaving of concurrent runs a language's model is
\* loaded at most once: no two threads are loading the same language at the
\* same time, and no load is completed for a language a second time.
C13_LoadedAtMostOnce ==
    /\ \A t, u \in Threads :
          (t # u /\ Loading(t) /\ Loading(u)) => tlang[t] # tlang[u]
    /\ \A l \in Supported : loads[l] <= 1

\* some model has completed a load in this process
SomeModelLoaded == english_model_loaded \/ nepali_model_loaded

\* C14: the shared device is decided once, by the first successful load:
\* once some model is loaded, no later step (the load of a second language
\* in either order, or any other) changes the device value.
C14_DeviceDecidedOnce ==
    [][SomeModelLoaded => device' = device]_vars

\* C15: perform_ocr_on_image never raises to its caller: whatever the bytes,
\* the language tag, the detector's answer and the model configuration, a
\* run ends by returning a value.
C15_NeverRaises ==
    exit # "raised" /\ result.k # "raised"

----------------------------------------------------------------------------
(* The document views, views.py:58-195, over the tables of models.py.      *)

Users == 1..NumUsers

\* request.data.get('language') of an upload: a value or no such field
LanguageFields == Languages \cup {"absent"}

\* views.py:71-74
ViewLanguage(field) == IF field \in Supported THEN field ELSE "english"

\* serializer.is_valid() (views.py:84): validate_image (serializers.py:70-79)
\* accepts the file, and the language field, when sent, is one of
\* LANGUAGE_CHOICES (models.py:6-9)
SerializerValid(file_ok, field) == file_ok /\ field \in Supported \cup {"absent"}

\* an upload that only needs a file, whatever the serializer says
AcceptedUnvalidated(has_image, file_ok, field) == has_image

\* views.py:63 and 84: the upload gets past both rejections
Accepted(has_image, file_ok, field) == has_image /\ SerializerValid(file_ok, field)

\* what perform_ocr_on_image gives the upload view (views.py:98, 103)
OcrOutcomes == {NoneStr, Raised, Str(<<"a">>)}

\* request.data.get('text') of a PATCH
TextFields == {NoneStr, Str(<<"a">>), Str(<<"b">>)}

\* the response is kept together with what the request sent
Respond(op, user, pk, status, body, sent) ==
    /\ response' = [op |-> op, user |-> user, pk |-> pk, status |-> status,
                    body |-> body, sent |-> sent]
    /\ requests' = requests + 1

\* UploadedImage.objects.filter(user=request.user), views.py:141
Documents(user) == {pk \in DOMAIN images : images[pk].user = user}

\* a lookup that ignores the owner
GetObjectOfAnyUser(pk, user) == IF pk \in DOMAIN images THEN pk ELSE 0

\* get_object, views.py:148-153: the row's pk, or 0 for None
GetObject(pk, user) ==
    IF pk \in DOMAIN images /\ images[pk].user = user THEN pk ELSE 0

\* primary key of the next ExtractedText row: above those of the rows there
NewTextPk(txts) ==
    IF txts = {} THEN 1
    ELSE 1 + (CHOOSE m \in {r.id : r \in txts} : \A r \in txts : r.id <= m)

\* ExtractedText.objects.create(image=..., text=...)
AddText(txts, image, text) ==
    txts \cup {[id |-> NewTextPk(txts), image |-> image, text |-> text]}

\* what the database does during one upload: every statement succeeds, or
\* serializer.save (87), ExtractedText.objects.create (109) or
\* uploaded_image.save (117) raises
DbEnvs == {"ok", "save_raised", "create_raised", "status_raised"}

\* views.py:95-101 and 103-105: ocr_text_result after the inner try
OcrTextResult(read_ok, ocr) == IF read_ok /\ ocr.k = "str" THEN ocr ELSE NoneStr

\* an exception of lines 107-126 reaches the outer except (128-132)
UploadFails(text, db) ==
    \/ db = "create_raised" /\ text.k = "str"
    \/ db = "status_raised"

\* processing_status of the stored row when the request ends: the value
\* assigned at 110 or 113 once line 117 has saved it, else the value the row
\* was created with (77, 87)
StoredStatus(text, db) ==
    IF UploadFails(text, db) THEN "processing"
    ELSE IF text.k = "str" THEN "complete" ELSE "ocr_failed"

\* ImageUploadView.post, views.py:62-135
Upload(user) ==
    /\ requests < MaxRequests
    /\ \E has_image \in BOOLEAN, file_ok \in BOOLEAN, field \in LanguageFields :
          LET sent == [has_image |-> has_image, file_ok |-> file_ok, field |-> field]
          IN
          IF ~Accepted(has_image, file_ok, field)
          THEN /\ Respond("upload", user, 0, 400, {}, sent)
               /\ UNCHANGED <<images, extracted_texts, next_pk, ocr_runs>>
          ELSE /\ next_pk <= MaxImages
               /\ \E read_ok \in BOOLEAN, ocr \in OcrOutcomes, db \in DbEnvs :
                     IF db = "save_raised"
                     THEN /\ Respond("upload", user, 0, 500, {}, sent)
                          /\ UNCHANGED <<images, extracted_texts, next_pk, ocr_runs>>
                     ELSE
                     LET text == OcrTextResult(read_ok, ocr)
                         row == [user |-> user, language |-> ViewLanguage(field),
                                 processing_status |-> StoredStatus(text, db)]
                     IN  /\ images' = [pk \in DOMAIN images \cup {next_pk} |->
                                          IF pk = next_pk THEN row ELSE images[pk]]
                         /\ extracted_texts' =
                               IF text.k = "str" /\ db # "create_raised"
                               THEN AddText(extracted_texts, next_pk, text.v)
                               ELSE extracted_texts
                         /\ ocr_runs' = IF read_ok THEN ocr_runs + 1 ELSE ocr_runs
                         /\ next_pk' = next_pk + 1
                         /\ IF UploadFails(text, db)
                            THEN Respond("upload", user, next_pk, 500, {}, sent)
                            ELSE Respond("upload", user, next_pk, 201, {next_pk}, sent)
    /\ UNCHANGED <<uploading, run, cache, conc>>

\* DocumentListView.get, views.py:140-143
DocumentList(user) ==
    /\ requests < MaxRequests
    /\ Respond("list", user, 0, 200, Documents(user), NoUpload)
    /\ UNCHANGED <<images, extracted_texts, next_pk, ocr_runs, uploading, run, cache, conc>>

\* DocumentDetailView.get, views.py:155-161
DocumentGet(user, pk) ==
    /\ requests < MaxRequests
    /\ LET document == GetObject(pk, user)
       IN  IF document = 0
           THEN Respond("get", user, pk, 404, {}, NoUpload)
           ELSE Respond("get", user, pk, 200, {document}, NoUpload)
    /\ UNCHANGED <<images, extracted_texts, next_pk, ocr_runs, uploading, run, cache, conc>>

\* DocumentDetailView.delete, views.py:164-170; the rows of ExtractedText go
\* with their image (on_delete=CASCADE, models.py:28)
DocumentDelete(user, pk) ==
    /\ requests < MaxRequests
    /\ LET document == GetObject(pk, user)
       IN  IF document = 0
           THEN /\ Respond("delete", user, pk, 404, {}, NoUpload)
                /\ UNCHANGED <<images, extracted_texts>>
           ELSE /\ images' = [q \in DOMAIN images \ {document} |-> images[q]]
                /\ extracted_texts' = {r \in extracted_texts : r.image # document}
                /\ Respond("delete", user, pk, 204, {}, NoUpload)
    /\ UNCHANGED <<next_pk, ocr_runs, uploading, run, cache, conc>>

\* DocumentDetailView.patch, views.py:172-195.  update_or_create looks the
\* row up with get(image=document): no row, it creates one; one row, it
\* updates it; several rows, get raises MultipleObjectsReturned, which the
\* view does not catch
DocumentPatch(user, pk) ==
    /\ requests < MaxRequests
    /\ \E text_content \in TextFields :
          LET document == GetObject(pk, user)
              rows == {r \in extracted_texts : r.image = document}
          IN  IF document = 0
              THEN /\ Respond("patch", user, pk, 404, {}, NoUpload)
                   /\ UNCHANGED extracted_texts
              ELSE IF text_content.k = "none"
              THEN /\ Respond("patch", user, pk, 400, {}, NoUpload)
                   /\ UNCHANGED extracted_texts
              ELSE IF rows = {}
              THEN /\ extracted_texts' = AddText(extracted_texts, document, text_content.v)
                   /\ Respond("patch", user, pk, 201, {document}, NoUpload)
              ELSE IF Cardinality(rows) = 1
              THEN /\ extracted_texts' =
                         {IF r \in rows THEN [r EXCEPT !.text = text_content.v] ELSE r :
                             r \in extracted_texts}
                   /\ Respond("patch", user, pk, 200, {document}, NoUpload)
              ELSE /\ Respond("patch", user, pk, 500, {}, NoUpload)
                   /\ UNCHANGED extracted_texts
    /\ UNCHANGED <<images, next_pk, ocr_runs, uploading, run, cache, conc>>

NextWeb ==
    \E user \in Users :
        \/ Upload(user)
        \/ DocumentList(user)
        \/ \E pk \in 1..(MaxImages + 1) :
              \/ DocumentGet(user, pk)
              \/ DocumentDelete(user, pk)
              \/ DocumentPatch(user, pk)

InitWeb == Init /\ language = "english" /\ image_ok

\* requests of several users to the document views
SpecWeb == InitWeb /\ [][NextWeb]_vars

----------------------------------------------------------------------------
(* The upload view as the server runs it next to other requests: the row of *)
(* line 87 is committed and visible while the OCR of line 98 is running.    *)

\* views.py:62-88: up to the stored row
UploadBegin(user) ==
    /\ \E has_image \in BOOLEAN, file_ok \in BOOLEAN, field \in LanguageFields,
          db \in {"ok", "save_raised"} :
          LET sent == [has_image |-> has_image, file_ok |-> file_ok, field |-> field]
          IN
          IF ~Accepted(has_image, file_ok, field)
          THEN /\ requests < MaxRequests
               /\ Respond("upload", user, 0, 400, {}, sent)
               /\ UNCHANGED <<images, next_pk, uploading>>
          ELSE IF db = "save_raised"
          THEN /\ requests < MaxRequests
               /\ Respond("upload", user, 0, 500, {}, sent)
               /\ UNCHANGED <<images, next_pk, uploading>>
          ELSE /\ next_pk <= MaxImages
               /\ images' = [pk \in DOMAIN images \cup {next_pk} |->
                                IF pk = next_pk
                                THEN [user |-> user, language |-> ViewLanguage(field),
                                      processing_status |-> "processing"]
                                ELSE images[pk]]
               /\ next_pk' = next_pk + 1
               /\ uploading' = uploading \cup {[pk |-> next_pk, sent |-> sent]}
               /\ UNCHANGED <<response, requests>>
    /\ UNCHANGED <<extracted_texts, ocr_runs, run, cache, conc>>

\* views.py:90-132: from the OCR to the response
UploadEnd(pk) ==
    /\ \E up \in uploading : up.pk = pk
    /\ LET up == CHOOSE u \in uploading : u.pk = pk IN
       \E read_ok \in BOOLEAN, ocr \in OcrOutcomes, db \in DbEnvs \ {"save_raised"} :
          LET text == OcrTextResult(read_ok, ocr)
              user == images[up.pk].user
          IN  /\ uploading' = uploading \ {up}
              /\ images' = [images EXCEPT ![up.pk].processing_status = StoredStatus(text, db)]
              /\ extracted_texts' =
                    IF text.k = "str" /\ db # "create_raised"
                    THEN AddText(extracted_texts, up.pk, text.v)
                    ELSE extracted_texts
              /\ ocr_runs' = IF read_ok THEN ocr_runs + 1 ELSE ocr_runs
              /\ IF UploadFails(text, db)
                 THEN Respond("upload", user, up.pk, 500, {}, up.sent)
                 ELSE Respond("upload", user, up.pk, 201, {up.pk}, up.sent)
    /\ UNCHANGED <<next_pk, run, cache, conc>>

NextWebConc ==
    \/ \E user \in Users : UploadBegin(user)
    \/ \E pk \in 1..MaxImages : UploadEnd(pk)
    \/ \E user \in Users, pk \in 1..(MaxImages + 1) : DocumentPatch(user, pk)

\* uploads and PATCH requests served concurrently
SpecWebConc == InitWeb /\ [][NextWebConc]_vars

\* the rows of both tables that belong to the documents of a user
RowsOf(user, imgs, txts) ==
    <<[pk \in {q \in DOMAIN imgs : imgs[q].user = user} |-> imgs[pk]],
      {r \in txts : r.image \in DOMAIN imgs /\ imgs[r.image].user = user}>>

\* C18: a user sees and acts on their own documents only: a list answers
\* exactly the documents of the requesting user, and a GET, DELETE or PATCH
\* on a document of another user answers 404 and leaves the images and
\* texts of every other user as they were.
C18_UserIsolation ==
    [][requests' # requests =>
         /\ response'.op = "list" =>
               response'.body = {pk \in DOMAIN images : images[pk].user = response'.user}
         /\ (/\ response'.op \in {"get", "delete", "patch"}
             /\ response'.pk \in DOMAIN images
             /\ images[response'.pk].user # response'.user) =>
               /\ response'.status = 404
               /\ images' = images
               /\ extracted_texts' = extracted_texts
         /\ \A other \in Users \ {response'.user} :
               response'.op # "upload" =>
                   RowsOf(other, images', extracted_texts') = RowsOf(other, images, extracted_texts)]_vars

\* a user was refused the deletion of another user's document that has text
C18_Witness ==
    /\ response.op = "delete"
    /\ response.status = 404
    /\ response.pk \in DOMAIN images
    /\ images[response.pk].user # response.user
    /\ \E r \in extracted_texts : r.image = response.pk

\* C19: an upload that is rejected, for want of an 'image' file or by the
\* serializer, answers 400 and changes nothing: no UploadedImage row, no
\* ExtractedText row, and no run of the OCR pipeline.
C19_RejectedUploadChangesNothing ==
    [][(/\ requests' # requests
        /\ response'.op = "upload"
        /\ \/ ~response'.sent.has_image
           \/ ~SerializerValid(response'.sent.file_ok, response'.sent.field)) =>
         /\ response'.status = 400
         /\ images' = images
         /\ extracted_texts' = extracted_texts
         /\ next_pk' = next_pk
         /\ ocr_runs' = ocr_runs]_vars

\* an upload was rejected while documents and text are stored
C19_Witness ==
    /\ response.op = "upload"
    /\ response.sent.has_image
    /\ ~SerializerValid(response.sent.file_ok, response.sent.field)
    /\ response.status = 400
    /\ images # << >>
    /\ extracted_texts # {}

----------------------------------------------------------------------------
(* The sequencing step on its own: lines 335-377 applied to prediction     *)
(* lists that differ in their x and y keys only.                           *)

SeqYs == {I(0), I(20), I(40), I(61), Missing}

SeqXs == {I(10), I(50), Missing}

SeqPool == {Pred(x, y, Missing, Missing, NoPoints, NoBox) : x \in SeqXs, y \in SeqYs}

SeqInputs == {WithIds(s) : s \in SeqsUpTo(SeqPool, MaxSeqLen)}

InitSeq ==
    /\ language \in Supported
    /\ image_ok = TRUE
    /\ load_env = "cpu"
    /\ pc = "sort"
    /\ english_model_loaded = FALSE
    /\ nepali_model_loaded = FALSE
    /\ english_processor = FALSE
    /\ english_model = FALSE
    /\ nepali_processor = FALSE
    /\ nepali_model = FALSE
    /\ device = "None"
    /\ detected \in SeqInputs
    /\ region_predictions = List(detected)
    /\ line_groups = NoGroups
    /\ idx = 1
    /\ word_idx = 1
    /\ full_text = <<>>
    /\ line_text = <<>>
    /\ result = Unset
    /\ exit = "running"
    /\ detect_calls = 1
    /\ adapter = "answered"
    /\ tmp_left = 0
    /\ log = <<>>
    /\ runs = 0
    /\ seen = {}
    /\ OutsideInit

\* lines 335-377 run once more on the list the first sequencing left
Resequence ==
    /\ pc = "process"
    /\ SortStep
    /\ pc' = "resequenced"
    /\ UNCHANGED <<input, cache, detected, idx, word_idx, full_text, line_text,
                   detect_calls, adapter, tmp_left, log, outcome>>
    /\ UNCHANGED outside

NextSeq == Sort \/ Resequence

SpecSeq == InitSeq /\ [][NextSeq]_vars

----------------------------------------------------------------------------
(* Properties of the sequencing.                                           *)

HasKey(p, f) == p[f].k = "int"

Sequenced == pc \in {"process", "resequenced"}

\* out holds the elements of orig in ascending order of key f, elements of
\* equal key in their order in orig
IsStableSortOf(out, orig, f) ==
    /\ Len(out) = Len(orig)
    /\ \A i \in 1..Len(out) : out[i].id \in 1..Len(orig) /\ out[i] = orig[out[i].id]
    /\ \A i, j \in 1..Len(out) :
        i < j => /\ out[i].id # out[j].id
                 /\ ~KeyLess(SortKey(out[j], f), SortKey(out[i], f))
                 /\ (SortKey(out[i], f) = SortKey(out[j], f) => out[i].id < out[j].id)

AllHaveY(s) == \A i \in 1..Len(s) : HasKey(s[i], "y")

\* C7: when every prediction has a valid y, the order in which the English
\* lines are processed is the stable ascending-y sort of the detector's
\* list, and it still is after the list is sequenced a second time.
C7_LineOrderIsStableSort ==
    (Sequenced /\ language = "english" /\ AllHaveY(detected))
        => IsStableSortOf(region_predictions.v, detected, "y")

\* a resequenced English list of three lines, two of equal y, that the sort
\* had to reorder
C7_Witness ==
    /\ pc = "resequenced"
    /\ language = "english"
    /\ AllHaveY(detected)
    /\ Len(detected) >= 3
    /\ region_predictions.v # detected
    /\ \E i, j \in 1..Len(detected) : i < j /\ detected[i].y = detected[j].y
                                        /\ detected[i].x # detected[j].x

\* the index of the line group that holds the prediction of identity id
GroupOf(id) ==
    CHOOSE g \in 1..Len(line_groups.v) :
        \E k \in 1..Len(line_groups.v[g]) : line_groups.v[g][k].id = id

WithY == {i \in 1..Len(detected) : HasKey(detected[i], "y")}

YOf(i) == detected[i].y.v

\* i and j are neighbours in the ascending y order, j below i
YNeighbours(i, j) ==
    /\ YOf(i) < YOf(j)
    /\ \A r \in WithY : ~(YOf(i) < YOf(r) /\ YOf(r) < YOf(j))

----------------------------------------------------------------------------
(* Properties of a pipeline run.                                           *)

Done == pc = "done"

\* the call returned a value
Returned == Done /\ exit # "raised"

\* the return statements that report a fatal failure
FatalExits == {"decode_failed", "detector_critical"}

\* the return statements that report that no text was found
NoTextExits == {"no_regions", "no_text"}

\* C1: a decodable image for which the detector answers zero predictions
\* gives the "no text" value, and that value is never the value returned for
\* an image-decode failure or a detector critical failure.
C1_NoTextIsNotFatal ==
    /\ (Done /\ image_ok /\ adapter = "answered" /\ detected = <<>>)
          => (exit = "no_regions" /\ result = NoneStr)
    /\ \A a, b \in seen :
          (a[1] = "no_regions" /\ b[1] \in FatalExits) => a[2] # b[2]

\* C2: when the image cannot be decoded the run returns the fatal-failure
\* value, which is not the value returned for "no text", without calling the
\* detector and without cropping or recognising any region.
C2_DecodeFailureIsFatal ==
    (Done /\ exit = "decode_failed") =>
        /\ ~image_ok
        /\ result = NoneStr
        /\ detect_calls = 0
        /\ log = <<>>
        /\ \A a \in seen : a[1] \in NoTextExits => a[2] # result

\* C3: the detector adapter answers None for every error of the detector
\* call and an empty list only when the call succeeded with no predictions.
C3_AdapterSignals ==
    (detect_calls > 0 /\ adapter # "not_called") =>
        /\ adapter # "answered" => region_predictions = NoneList
        /\ region_predictions = List(<<>>) => (adapter = "answered" /\ detected = <<>>)

\* C4: a run ends without processing its detected regions only when the
\* image decode failed or the detector adapter signalled critical failure.
C4_OnlyFatalAborts ==
    Done => exit \in FatalExits \cup {"ok", "no_text", "no_regions"}

\* the regions in the order the sequencing put them in
RECURSIVE Flatten(_)
Flatten(ss) == IF ss = <<>> THEN <<>> ELSE ss[1] \o Flatten(Tail(ss))

ReadingOrder == IF language = "english" THEN region_predictions.v ELSE Flatten(line_groups.v)

RECURSIVE SplitOn(_, _)
\* the pieces of s between the occurrences of the character c
SplitOn(s, c) ==
    IF \E i \in 1..Len(s) : s[i] = c
    THEN LET i == CHOOSE k \in 1..Len(s) : s[k] = c /\ \A j \in 1..(k-1) : s[j] # c
         IN  <<SubSeq(s, 1, i - 1)>> \o SplitOn(SubSeq(s, i + 1, Len(s)), c)
    ELSE <<s>>

RECURSIVE WordsOfLines(_)
WordsOfLines(ls) == IF ls = <<>> THEN <<>> ELSE SplitOn(ls[1], " ") \o WordsOfLines(Tail(ls))

\* the texts a returned value holds, in order
WordsOf(r) == IF r.k = "str" THEN WordsOfLines(SplitOn(r.v, "\n")) ELSE <<>>

TextEntries == SelectSeq(log, LAMBDA e : e.what = "text")

Failures == {i \in 1..Len(log) : log[i].what # "text"}

RanToCompletion == Done /\ exit \in {"ok", "no_text"}

\* C5: when the N regions were put in reading order and exactly one of them
\* fails (its geometry or its recognition), every region is still processed,
\* in reading order, and the transcript holds the N-1 texts of the others in
\* that order.
C5_OneFailureKeepsSiblings ==
    (RanToCompletion /\ ~SortRaises(detected, "y") /\ Cardinality(Failures) = 1) =>
        /\ Len(log) = Len(detected)
        /\ \A i \in 1..Len(log) : log[i].id = ReadingOrder[i].id
        /\ Len(WordsOf(result)) = Len(detected) - 1
        /\ \A i \in 1..Len(TextEntries) : WordsOf(result)[i] = TextEntries[i].text

\* a run of two or more regions whose last region is the only one that fails
C5_Witness ==
    /\ RanToCompletion
    /\ ~SortRaises(detected, "y")
    /\ Len(log) >= 2
    /\ Failures = {Len(log)}
    /\ log[Len(log)].what \in {"none", "raise"}
    /\ result.k = "str"

LinesWithText == {e.line : e \in {log[i] : i \in 1..Len(log)} \cap {e \in {log[i] : i \in 1..Len(log)} : e.what = "text"}}

\* the k-th smallest element of the set S of numbers
Kth(S, k) == CHOOSE n \in S : Cardinality({m \in S : m < n}) = k - 1

TextsOfLine(n) ==
    LET es == SelectSeq(log, LAMBDA e : e.what = "text" /\ e.line = n)
    IN  [i \in 1..Len(es) |-> es[i].text]

\* C6: the value returned is None exactly when no region yielded text;
\* otherwise it is the texts in reading order, one line per English region or
\* Nepali LineGroup that yielded text, the lines separated by one newline
\* and the words of a line by one space.
C6_Transcript ==
    Returned =>
        /\ result = NoneStr <=> TextEntries = <<>>
        /\ result.k = "str" =>
            LET lines == SplitOn(result.v, "\n")
            IN  /\ Len(lines) = Cardinality(LinesWithText)
                /\ \A k \in 1..Len(lines) :
                      SplitOn(lines[k], " ") = TextsOfLine(Kth(LinesWithText, k))

\* a Nepali run that recognised two words of one line: "a b"
C6_Witness ==
    /\ Done
    /\ language = "nepali"
    /\ Len(TextEntries) >= 2
    /\ TextEntries[1].line = TextEntries[2].line
    /\ SubSeq(result.v, 1, 3) = <<"a", " ", "b">>

Handed == {e \in {log[i] : i \in 1..Len(log)} : e.what \in {"text", "none"}}

\* C9: every rectangle that is cropped and handed to the recogniser lies in
\* the image and has positive area.
C9_CropRectInBounds ==
    \A e \in Handed :
        /\ 0 <= e.rect[1] /\ e.rect[1] < e.rect[3] /\ e.rect[3] <= ImgW
        /\ 0 <= e.rect[2] /\ e.rect[2] < e.rect[4] /\ e.rect[4] <= ImgH

HasCentreBox(p) == \A f \in {"x", "y", "width", "height"} : p[f].k # "missing"

\* the only geometry of p is a polygon of fewer than 3 usable points
DegeneratePolygon(p) ==
    /\ p.bbox.k = "missing"
    /\ ~HasCentreBox(p)
    /\ p.points.k = "list"
    /\ Len(UsablePoints(p.points.v)) < 3

\* p has none of the coordinate keys
NoCoordinates(p) == p.bbox.k = "missing" /\ ~HasCentreBox(p) /\ p.points.k = "missing"

\* C10: in both scripts a region whose only geometry is a polygon of fewer
\* than 3 usable points, or that has no coordinate keys, is skipped: nothing
\* is cropped or recognised for it, and the run goes on.
C10_DegenerateRegionSkipped ==
    /\ \A i \in 1..Len(log) :
          (DegeneratePolygon(detected[log[i].id]) \/ NoCoordinates(detected[log[i].id]))
              => log[i].what \in {"skip", "raise"}
    /\ (Done /\ ~SortRaises(detected, "y")
             /\ \E i \in 1..Len(detected) :
                    DegeneratePolygon(detected[i]) \/ NoCoordinates(detected[i]))
          => RanToCompletion

----------------------------------------------------------------------------
(* Properties of the detector adapter's temporary file.                    *)

\* C11: after a detector adapter call has returned, whatever it met (the
\* save failed, the detector answered, the detector raised, the delete
\* failed), no temporary image file created by that call is left on disk.
C11_NoTemporaryFileLeft ==
    (detect_calls > 0 /\ adapter # "not_called") => tmp_left = 0

----------------------------------------------------------------------------
(* Properties of the recognition model cache.                              *)

\* C12: a failed load of a language's model is reported by returning the
\* absent value, never by raising, and leaves the language not loaded, so
\* that the next call retries; a call that finds the configured location
\* valid, also after earlier failures, loads the model and goes on.
C12_FailedLoadReportedAndRetried ==
    /\ (pc # "load" /\ load_env \in FailingLoadEnvs) =>
          /\ Done /\ exit = "load_failed" /\ result = NoneStr
          /\ ~Loaded(ModelOf(language), CacheRec)
    /\ (pc # "load" /\ load_env \in {"cpu", "cuda"}) =>
          /\ Loaded(ModelOf(language), CacheRec)
          /\ exit \notin {"load_failed", "raised"}

\* the positions, in the detector's answer, of the regions processed so far
ProcessedIds == [i \in 1..Len(log) |-> log[i].id]

\* the sort of this run's predictions raised
SortFailed == region_predictions.k = "list" /\ SortRaises(region_predictions.v, "y")

\* C16: when sorting the predictions fails, for either script, the run is
\* not aborted: it ends with the transcript (or with no text) of the regions
\* processed in the order the detector gave them.
C16_SortFailureFallsBack ==
    (Done /\ SortFailed) =>
        /\ exit \in {"ok", "no_text"}
        /\ ProcessedIds = [i \in 1..Len(region_predictions.v) |-> i]

\* the descriptor a prediction is resolved by when the three shapes are
\* tried in the order of lines 452, 456, 460: named box, centre box, polygon
FirstShape(p) ==
    IF p.bbox.k # "missing" THEN "box"
    ELSE IF \A f \in {"x", "y", "width", "height"} : p[f].k # "missing" THEN "center"
    ELSE IF p.points.k # "missing" THEN "polygon"
    ELSE "none"

\* the descriptor of that shape is well formed: integer coordinates, and
\* for a polygon at least three points
ValidShape(p, shape) ==
    IF shape = "box" THEN AllInts(p.bbox.v, {"x", "y", "width", "height"})
    ELSE IF shape = "center" THEN AllInts(p, {"x", "y", "width", "height"})
    ELSE IF shape = "polygon"
    THEN /\ Len(UsablePoints(p.points.v)) >= MinPolygonPoints
         /\ \A j \in 1..Len(p.points.v) : AllInts(p.points.v[j], {"x", "y"})
    ELSE FALSE

\* C17: for either script the geometry of a region is taken from the first
\* descriptor the prediction carries, in the order named box, centre box,
\* polygon: when that descriptor is well formed the region's rectangle is
\* computed from it, whatever the script.
C17_DescriptorPriority ==
    \A i \in 1..Len(log) :
        LET p == detected[log[i].id]
        IN  ValidShape(p, FirstShape(p)) =>
                log[i].shape = FirstShape(p) /\ log[i].what # "raise"

\* C20: every crop handed to the recogniser for a polygon-described region
\* is taken from the image masked by the polygon, in either script, and
\* every crop for a box-described region from the unmasked image.
C20_PolygonCropsAreMasked ==
    \A i \in 1..Len(log) :
        (log[i].what \in {"text", "none"} /\ ValidShape(detected[log[i].id], log[i].shape)) =>
            /\ log[i].shape = "polygon" => log[i].source = "masked"
            /\ log[i].shape \in {"box", "center"} => log[i].source = "image"

\* C21: once an upload request has finished, with whatever response, the
\* UploadedImage row it created is not left in status 'processing': the
\* status is 'complete' when an ExtractedText row exists for it and
\* 'ocr_failed' when none does.
C21_UploadLeavesFinalStatus ==
    [][(/\ requests' # requests
        /\ response'.op = "upload"
        /\ response'.pk \in DOMAIN images') =>
          LET status == images'[response'.pk].processing_status
              has_text == \E r \in extracted_texts' : r.image = response'.pk
          IN  /\ status \in {"complete", "ocr_failed"}
              /\ status = "complete" <=> has_text]_vars

\* the ExtractedText rows of an UploadedImage
TextsOf(pk) == {r \in extracted_texts : r.image = pk}

\* C22: after any sequence or interleaving of upload and PATCH requests an
\* UploadedImage has at most one ExtractedText row.
C22_AtMostOneTextPerImage ==
    \A pk \in DOMAIN images : Cardinality(TextsOf(pk)) <= 1

\* the places <<group, position>> at which the line groups hold a prediction
Places ==
    UNION {{<<g, k>> : k \in 1..Len(line_groups.v[g])} : g \in 1..Len(line_groups.v)}

C24_LoadedFlagMeansModelPresent ==
    /\ \A l \in Supported : Loaded(l, CacheRec) => ProcessorOf(l) /\ ModelObjOf(l)
    /\ \A r \in inferences : r.processor /\ r.model /\ r.device # "None"

====
